---- MODULE Spec2Model ----
(***************************************************************************)
(* configkit: Loader.Load, the root command it builds and the pre-run     *)
(* hook that prints the version or reads, overlays and unmarshals the     *)
(* configuration.  One Load call is followed from its entry to its        *)
(* return; the process arguments, the environment, the files and the      *)
(* call's arguments are drawn from small sets.                            *)
(***************************************************************************)
EXTENDS Integers, Sequences, FiniteSets, TLC

(***************************************************************************)
(* Bounds and program constants                                            *)
(***************************************************************************)
\* Longest list of process arguments after the program name.
MaxArgs == 2

\* config.go: LoadResult values (iota).
LoadResultContinue == 0
LoadResultStop == 1

(***************************************************************************)
(* Values.  A value held by the merge context is tagged with its Go type. *)
(***************************************************************************)
Nil == [kind |-> "nil"]
StrVal(s) == [kind |-> "string", str |-> s]
IntVal(n) == [kind |-> "int", int |-> n]
BoolVal(b) == [kind |-> "bool", bool |-> b]

\* An error is the chain of messages fmt.Errorf("...: %w") builds; nil is <<>>.
NoError == <<>>
Wrap(msg, e) == <<msg>> \o e
Range(s) == {s[i] : i \in DOMAIN s}

\* strconv.ParseBool, as cast.ToBool applies it to a string.
ParseBool(s) == s \in {"1", "t", "T", "true", "TRUE", "True"}

\* strconv.Atoi on the strings that occur; anything else does not parse.
NumericStrings == {"7070", "8080", "9090"}
Atoi(s) == CASE s = "7070" -> 7070 [] s = "8080" -> 8080 [] s = "9090" -> 9090 [] OTHER -> 0

(***************************************************************************)
(* The process: file system, environment, arguments.                       *)
(***************************************************************************)
Unset == "<unset>"

\* Files on disk: two well-formed files, one that does not parse; any other
\* path does not exist.
Files ==
    [ p \in {"a.yaml", "b.yaml", "bad.yaml"} |->
        CASE p = "a.yaml" -> [valid |-> TRUE,
                              content |-> [k \in {"port", "log_level", "config"} |->
                                  CASE k = "port" -> IntVal(8080)
                                    [] k = "log_level" -> StrVal("info")
                                    [] k = "config" -> StrVal("from-file")]]
          [] p = "b.yaml" -> [valid |-> TRUE,
                              content |-> [k \in {"port", "log_level"} |->
                                  CASE k = "port" -> IntVal(9090)
                                    [] k = "log_level" -> StrVal("warn")]]
          [] p = "bad.yaml" -> [valid |-> FALSE, content |-> << >>] ]

EnvNames == {"TESTAPP_VERSION", "TESTAPP_CONFIG", "TESTAPP_PORT", "TESTAPP_LOG_LEVEL"}

\* Environments: each variable unset, empty, or set to a value its key reads.
Environments ==
    { [n \in EnvNames |->
          CASE n = "TESTAPP_VERSION" -> ver [] n = "TESTAPP_CONFIG" -> path
            [] n = "TESTAPP_PORT" -> port [] n = "TESTAPP_LOG_LEVEL" -> level] :
        ver \in {Unset, "true"}, path \in {Unset, "", "b.yaml"},
        port \in {Unset, "", "7070", "abc"}, level \in {Unset, "debug"} }

\* One command-line token: --<flag>=<value>; a boolean flag given bare
\* carries its NoOptDefVal "true".
Tokens ==
    { [flag |-> "version", value |-> "true"], [flag |-> "version", value |-> "false"],
      [flag |-> "help", value |-> "true"], [flag |-> "help", value |-> "false"],
      [flag |-> "config", value |-> ""], [flag |-> "config", value |-> "a.yaml"],
      [flag |-> "config", value |-> "none.yaml"],
      [flag |-> "bogus", value |-> "true"] }

ArgLists == UNION { [1..n -> Tokens] : n \in 0..MaxArgs }

FallbackPaths == {"a.yaml", "none.yaml", "bad.yaml"}

\* Destinations a caller may pass: a struct by value, a pointer to a struct,
\* a typed nil pointer, a pointer to an int.
CfgKinds == {"struct", "ptrStruct", "nilPtr", "ptrInt"}
Printers == {"nil", "ok", "fail"}
Writers == {"nil", "buffer"}

\* The caller's struct before the call.
DestInit == [port |-> 1, log_level |-> "preset", config |-> "preset"]

VARIABLES
    loader,        \* the Loader's fields
    osArgs,        \* os.Args[1:], as the call found it
    environ,       \* the process environment, as the call found it
    pc,            \* position of the Load call
    cfg, printVersion, writer,   \* Load's arguments
    dest,          \* the struct cfg points to
    flags,         \* the root command's flag set
    v,             \* the call's viper instance
    execErr,       \* what cmd.Execute returned
    result, err,   \* what Load returned
    printed,       \* invocations of printVersion, each with the sink it got
    sink, stdout,  \* what was written to writer / to os.Stdout
    fileReads,     \* paths ReadInConfig tried, in order
    unmarshalled,  \* Unmarshal was called
    argsParsed,    \* the process arguments were parsed
    envRead,       \* the environment was consulted
    earlier        \* an earlier Load call has returned in this process

vars == << loader, osArgs, environ, pc, cfg, printVersion, writer, dest, flags, v,
           execErr, result, err, printed, sink, stdout, fileReads, unmarshalled,
           argsParsed, envRead, earlier >>

(***************************************************************************)
(* pflag / cobra: the flag set and argument parsing.                       *)
(***************************************************************************)
\* Flags of the root command: --config and --version are declared by
\* buildRootCommand, --help is added by cobra when the command executes.
NewFlagSet ==
    [ f \in {"config", "version", "help"} |->
        IF f = "config" THEN [type |-> "string", value |-> "", changed |-> FALSE]
        ELSE [type |-> "bool", value |-> "false", changed |-> FALSE] ]

\* FlagSet.Parse: tokens in order; a known flag is set and marked changed, an
\* unknown one ends parsing with an error.
RECURSIVE ParseFlags(_, _)
ParseFlags(fl, args) ==
    IF args = << >> THEN [flags |-> fl, err |-> NoError]
    ELSE LET t == Head(args) IN
         IF t.flag \notin DOMAIN fl
         THEN [flags |-> fl, err |-> <<"unknown flag">>]
         ELSE ParseFlags([fl EXCEPT ![t.flag].value = t.value, ![t.flag].changed = TRUE],
                         Tail(args))

\* FlagSet.Changed(name).
Changed(fl, name) == fl[name].changed

\* A bound flag's value as viper reads it (typed by the flag's type).
FlagValue(f) == IF f.type = "bool" THEN BoolVal(ParseBool(f.value)) ELSE StrVal(f.value)

(***************************************************************************)
(* viper: one instance per Load call.                                      *)
(***************************************************************************)
EmptyMap == << >>

\* viper.New().
NewViper ==
    [pflags |-> {}, automaticEnv |-> FALSE, envPrefix |-> "", configFile |-> "",
     config |-> EmptyMap]

\* The environment name of a key: prefix, "_", the key upper-cased with "."
\* replaced by "_".
UpperKey(key) ==
    CASE key = "version" -> "VERSION" [] key = "config" -> "CONFIG"
      [] key = "port" -> "PORT" [] key = "log_level" -> "LOG_LEVEL"
EnvKey(prefix, key) == prefix \o "_" \o UpperKey(key)

\* getEnv: an empty value counts as not set.
EnvSet(e, name) == name \in DOMAIN e /\ e[name] # Unset /\ e[name] # ""

\* Find with the file consulted before the environment.
FindFileFirst(vp, fl, e, key) ==
    IF key \in vp.pflags /\ fl[key].changed THEN FlagValue(fl[key])
    ELSE IF key \in DOMAIN vp.config THEN vp.config[key]
    ELSE IF vp.automaticEnv /\ EnvSet(e, EnvKey(vp.envPrefix, key))
         THEN StrVal(e[EnvKey(vp.envPrefix, key)])
    ELSE IF key \in vp.pflags THEN FlagValue(fl[key])
    ELSE Nil

\* viper's lookup of one key: a changed bound flag, then the environment,
\* then the config file, then a bound flag's default.
Find(vp, fl, e, key) ==
    IF key \in vp.pflags /\ fl[key].changed THEN FlagValue(fl[key])
    ELSE IF vp.automaticEnv /\ EnvSet(e, EnvKey(vp.envPrefix, key))
         THEN StrVal(e[EnvKey(vp.envPrefix, key)])
    ELSE IF key \in DOMAIN vp.config THEN vp.config[key]
    ELSE IF key \in vp.pflags THEN FlagValue(fl[key])
    ELSE Nil

\* Whether that lookup consults the environment.
FindReadsEnv(vp, fl, key) == vp.automaticEnv /\ ~(key \in vp.pflags /\ fl[key].changed)

\* GetBool / GetString: cast.ToBool, cast.ToString of the value found.
GetBool(vp, fl, e, key) ==
    LET x == Find(vp, fl, e, key) IN
    CASE x.kind = "bool" -> x.bool
      [] x.kind = "string" -> ParseBool(x.str)
      [] OTHER -> FALSE
GetString(vp, fl, e, key) ==
    LET x == Find(vp, fl, e, key) IN
    CASE x.kind = "string" -> x.str
      [] x.kind = "bool" -> (IF x.bool THEN "true" ELSE "false")
      [] OTHER -> ""

\* AllSettings: every key of the bound flags and of the loaded file whose
\* lookup is not nil, with the value found.
AllSettings(vp, fl, e) ==
    LET keys == {k \in vp.pflags \cup DOMAIN vp.config : Find(vp, fl, e, k) # Nil}
    IN [k \in keys |-> Find(vp, fl, e, k)]

(***************************************************************************)
(* mapstructure: decoding the merged settings into the destination.       *)
(***************************************************************************)
\* The destination struct's fields, named by their mapstructure tags; port
\* is an int, the others are strings.
DestFields == {"port", "log_level", "config"}

\* Weakly typed decoding of one value into one field (the kinds that occur).
Decodable(field, raw) ==
    IF field = "port"
    THEN raw.kind = "int" \/ (raw.kind = "string" /\ raw.str \in NumericStrings)
    ELSE raw.kind = "string"
Decoded(field, raw) ==
    IF field = "port"
    THEN (IF raw.kind = "int" THEN raw.int ELSE Atoi(raw.str))
    ELSE raw.str

\* viper.Unmarshal(cfg): the result must be a non-nil pointer, and a map
\* decodes only into a struct; each field present in the settings is decoded,
\* fields that fail keep their value and make the call fail.
Unmarshal(settings, c, d) ==
    IF c # "ptrStruct"
    THEN [dest |-> d, err |-> <<"cannot decode into destination">>]
    ELSE LET present == DestFields \cap DOMAIN settings
             good == {f \in present : Decodable(f, settings[f])}
         IN [dest |-> [f \in DestFields |->
                          IF f \in good THEN Decoded(f, settings[f]) ELSE d[f]],
             err |-> IF good = present THEN NoError ELSE <<"cannot parse field">>]

(***************************************************************************)
(* buildRootCommand and its pre-run hook.                                  *)
(***************************************************************************)
\* The viper set-up of buildRootCommand: env prefix, automatic env, and the
\* two flags bound to the keys "config" and "version".
BuildRootCommand(l, vp) ==
    [vp EXCEPT !.envPrefix = l.envPrefix, !.automaticEnv = TRUE,
               !.pflags = {"config", "version"}]

\* What printVersion(writer) does: the helper printers refuse a nil writer,
\* a failing printer returns its error, otherwise the version is written.
PrintVersion(pv, w) ==
    IF pv = "fail" THEN [err |-> <<"write failed">>, written |-> << >>]
    ELSE IF w = "nil" THEN [err |-> <<"nil writer received">>, written |-> << >>]
    ELSE [err |-> NoError, written |-> <<"version">>]

\* The version switch honoured only when no --config is given.
VersionRequestedUnlessConfig(vp, fl, e) ==
    GetBool(vp, fl, e, "version") /\ ~fl["config"].changed

\* PreRunE: the version switch that decides between printing and loading.
VersionRequested(vp, fl, e) == GetBool(vp, fl, e, "version")

\* PreRunE: the config path: the "config" key, or the Loader's path if empty.
ResolveConfigPath(l, vp, fl, e) ==
    LET configPath == GetString(vp, fl, e, "config")
    IN IF configPath = "" THEN l.configPath ELSE configPath

\* viper.ReadInConfig on the file set by SetConfigFile.  A missing file is
\* reported as ConfigFileNotFoundError or as the file system's error,
\* depending on the library version (typedNotFound).
ReadInConfig(vp, typedNotFound) ==
    LET path == vp.configFile IN
    IF path \notin DOMAIN Files
    THEN [vp |-> vp,
          err |-> IF typedNotFound THEN <<"ConfigFileNotFoundError">>
                  ELSE <<"no such file or directory">>]
    ELSE IF ~Files[path].valid
    THEN [vp |-> vp, err |-> <<"parse error">>]
    ELSE [vp |-> [vp EXCEPT !.config = Files[path].content], err |-> NoError]

\* A failed ReadInConfig swallowed.
ReadErrorIgnored(configPath, e) == NoError

\* PreRunE's error for a failed ReadInConfig.
ReadError(configPath, e) ==
    IF e = <<"ConfigFileNotFoundError">>
    THEN <<"config file not found at", configPath>>
    ELSE Wrap("read main config at", Wrap(configPath, e))

\* The printer's error dropped.
PrintErrorSwallowed(e) == NoError

\* PreRunE's error for a failed printVersion.
PrintError(e) == Wrap("print version", e)

\* The pre-run hook as a whole: what it returns and what it leaves behind.
PreRunE(l, vp, fl, e, c, pv, w, d, typedNotFound) ==
    IF VersionRequested(vp, fl, e)
    THEN LET p == PrintVersion(pv, w) IN
         [err |-> IF p.err # NoError THEN PrintError(p.err) ELSE NoError,
          vp |-> vp, dest |-> d, printed |-> <<w>>, sink |-> p.written,
          fileReads |-> << >>, unmarshalled |-> FALSE,
          envRead |-> FindReadsEnv(vp, fl, "version")]
    ELSE LET configPath == ResolveConfigPath(l, vp, fl, e)
             r == ReadInConfig([vp EXCEPT !.configFile = configPath], typedNotFound)
         IN IF r.err # NoError
            THEN [err |-> ReadError(configPath, r.err),
                  vp |-> r.vp, dest |-> d, printed |-> << >>, sink |-> << >>,
                  fileReads |-> <<configPath>>, unmarshalled |-> FALSE,
                  envRead |-> FindReadsEnv(vp, fl, "version") \/ FindReadsEnv(vp, fl, "config")]
            ELSE LET u == Unmarshal(AllSettings(r.vp, fl, e), c, d) IN
                 [err |-> IF u.err # NoError THEN Wrap("unmarshal main config", u.err)
                          ELSE NoError,
                  vp |-> r.vp, dest |-> u.dest, printed |-> << >>, sink |-> << >>,
                  fileReads |-> <<configPath>>, unmarshalled |-> TRUE,
                  envRead |-> TRUE]

(***************************************************************************)
(* Loader.Load                                                             *)
(***************************************************************************)
\* The viper instance of the last call used again.
CallViperShared(last) == last

\* The viper instance a call works on: v := viper.New(), whatever instance
\* the last call left.
CallViper(last) == NewViper

\* The flag set of the last call used again.
CallFlagsShared(last) == last

\* The flag set a call works on: that of the cobra.Command it builds itself,
\* whatever the last call's command held.
CallFlags(last) == NewFlagSet

\* Validation without the writer check.
ValidateArgsNoWriter(c, pv, w) ==
    IF c \notin {"ptrStruct", "nilPtr", "ptrInt"}
    THEN <<"cfg must be a pointer to a struct">>
    ELSE IF pv = "nil" THEN <<"printVersion must be a function">>
    ELSE NoError

\* Load's eager validation of its arguments: the first failing check's error.
ValidateArgs(c, pv, w) ==
    IF c \notin {"ptrStruct", "nilPtr", "ptrInt"}
    THEN <<"cfg must be a pointer to a struct">>
    ELSE IF pv = "nil" THEN <<"printVersion must be a function">>
    ELSE IF w = "nil" THEN <<"writer must be a non-nil writer">>
    ELSE NoError

\* An Execute error paired with Continue.
ExecuteFailedContinue == LoadResultContinue

\* The result Load pairs with an error of cmd.Execute.
ExecuteFailedResult == LoadResultStop

\* The decision with the help flag left out.
ResultAfterExecuteNoHelp(fl) ==
    IF Changed(fl, "version") THEN LoadResultStop ELSE LoadResultContinue

\* Load's decision after a successful Execute.
ResultAfterExecute(fl) ==
    IF Changed(fl, "help") \/ Changed(fl, "version")
    THEN LoadResultStop
    ELSE LoadResultContinue

Init ==
    /\ loader \in {[name |-> "testapp", configPath |-> p, envPrefix |-> "TESTAPP"] :
                      p \in FallbackPaths}
    /\ osArgs = << >>
    /\ environ = [n \in EnvNames |-> Unset]
    /\ pc = "start"
    /\ cfg = "none" /\ printVersion = "none" /\ writer = "none"
    /\ dest = DestInit
    /\ flags = NewFlagSet
    /\ v = NewViper
    /\ execErr = NoError
    /\ result = LoadResultContinue /\ err = NoError
    /\ printed = << >> /\ sink = << >> /\ stdout = << >>
    /\ fileReads = << >>
    /\ unmarshalled = FALSE /\ argsParsed = FALSE /\ envRead = FALSE
    /\ earlier = FALSE

\* Load is entered with its three arguments: they are validated, and on
\* valid input a fresh viper and the root command are built.
Load(c, pv, w) ==
    /\ pc = "start"
    /\ cfg' = c /\ printVersion' = pv /\ writer' = w
    /\ IF ValidateArgs(c, pv, w) # NoError
       THEN /\ result' = LoadResultStop
            /\ err' = ValidateArgs(c, pv, w)
            /\ pc' = "done"
            /\ UNCHANGED << v, flags >>
       ELSE /\ v' = BuildRootCommand(loader, CallViper(v))
            /\ flags' = CallFlags(flags)
            /\ pc' = "built"
            /\ UNCHANGED << result, err >>
    /\ UNCHANGED << loader, osArgs, environ, dest, execErr, printed, sink, stdout,
                    fileReads, unmarshalled, argsParsed, envRead, earlier >>

\* cmd.Execute, in a process started with arguments args and environment e:
\* parse the arguments; a parse error is returned; a true --help prints the
\* help to the command's output (os.Stdout) and returns nil without running
\* the hook; otherwise the pre-run hook runs.
Execute(args, e, typedNotFound) ==
    /\ pc = "built"
    /\ osArgs' = args
    /\ environ' = e
    /\ \E parse \in {ParseFlags(flags, args)} :
       /\ argsParsed' = TRUE
       /\ flags' = parse.flags
       /\ IF parse.err # NoError
          THEN /\ execErr' = parse.err
               /\ UNCHANGED << v, dest, printed, sink, stdout, fileReads, unmarshalled,
                               envRead >>
          ELSE IF ParseBool(parse.flags["help"].value)
          THEN /\ execErr' = NoError
               /\ stdout' = Append(stdout, "help")
               /\ UNCHANGED << v, dest, printed, sink, fileReads, unmarshalled, envRead >>
          ELSE \E r \in {PreRunE(loader, v, parse.flags, e, cfg, printVersion,
                                writer, dest, typedNotFound)} :
               /\ execErr' = r.err
               /\ v' = r.vp
               /\ dest' = r.dest
               /\ printed' = r.printed
               /\ sink' = r.sink
               /\ fileReads' = r.fileReads
               /\ unmarshalled' = r.unmarshalled
               /\ envRead' = r.envRead
               /\ UNCHANGED stdout
    /\ pc' = "executed"
    /\ UNCHANGED << loader, cfg, printVersion, writer, result, err, earlier >>

\* Load returns: Execute's error wrapped with Stop, or Stop when --help or
\* --version was changed, or Continue.
Return ==
    /\ pc = "executed"
    /\ IF execErr # NoError
       THEN /\ result' = ExecuteFailedResult
            /\ err' = Wrap("execute root command", execErr)
       ELSE /\ result' = ResultAfterExecute(flags)
            /\ err' = NoError
    /\ pc' = "done"
    /\ UNCHANGED << loader, osArgs, environ, cfg, printVersion, writer, dest, flags, v,
                    execErr, printed, sink, stdout, fileReads, unmarshalled, argsParsed,
                    envRead, earlier >>

\* A call to Load with any arguments.
LoadCall ==
    /\ pc = "start"
    /\ \E c \in CfgKinds, pv \in Printers, w \in Writers : Load(c, pv, w)

\* cmd.Execute in any process.
ExecuteCall ==
    /\ pc = "built"
    /\ \E args \in ArgLists, e \in Environments, typedNotFound \in BOOLEAN :
          Execute(args, e, typedNotFound)

Next ==
    \/ LoadCall
    \/ ExecuteCall
    \/ Return

Spec == Init /\ [][Next]_vars

\* Loaders a process may construct.
Loaders ==
    {[name |-> "testapp", configPath |-> p, envPrefix |-> "TESTAPP"] : p \in FallbackPaths}

\* After a call has returned the process calls Load again, on the same
\* Loader or on another one, with a destination of its own; the instances
\* the returned call worked on are what it left behind.
NextCall(l) ==
    /\ loader' = l
    /\ earlier' = TRUE
    /\ pc' = "start"
    /\ osArgs' = << >>
    /\ environ' = [n \in EnvNames |-> Unset]
    /\ cfg' = "none" /\ printVersion' = "none" /\ writer' = "none"
    /\ dest' = DestInit
    /\ execErr' = NoError
    /\ result' = LoadResultContinue /\ err' = NoError
    /\ printed' = << >> /\ sink' = << >> /\ stdout' = << >>
    /\ fileReads' = << >>
    /\ unmarshalled' = FALSE /\ argsParsed' = FALSE /\ envRead' = FALSE
    /\ UNCHANGED << v, flags >>

\* Another call after one has returned.
SequentialCall ==
    /\ pc = "done"
    /\ \E l \in Loaders : NextCall(l)

\* Any sequence of Load calls.
NextSeq ==
    \/ Next
    \/ SequentialCall

SpecSeq == Init /\ [][NextSeq]_vars

(***************************************************************************)
(* Properties                                                              *)
(***************************************************************************)
Returned == pc = "done"

\* The process arguments parsed without error.
ArgsParsedOK == argsParsed /\ ParseFlags(NewFlagSet, osArgs).err = NoError

\* The final value of a boolean flag after a successful parse is true.
FlagTrue(name) == ArgsParsedOK /\ flags[name].changed /\ flags[name].value = "true"

\* argument i is the token --<name>=<value>
HasToken(name, value) == \E i \in DOMAIN osArgs : osArgs[i] = [flag |-> name, value |-> value]

\* C1: whenever Load returns (Continue, nil), the config file at the resolved
\* path was read and unmarshalled into the destination during the call,
\* for every combination of arguments and environment (also when the version
\* request arrives as <PREFIX>_VERSION=true).
C1_ContinueMeansLoaded ==
    (Returned /\ result = LoadResultContinue /\ err = NoError)
        => /\ fileReads # << >>
           /\ unmarshalled
           /\ v.config # EmptyMap

\* C2: whenever Load returns (Stop, nil), no config file was read, nothing was
\* unmarshalled and the destination is as it was, for every argument form
\* that marks the help or version flag as given (--help=false included).
C2_StopLeavesDestination ==
    (Returned /\ result = LoadResultStop /\ err = NoError)
        => /\ fileReads = << >>
           /\ ~unmarshalled
           /\ dest = DestInit

\* C3: on every return path of Load a non-nil error comes with
\* LoadResultStop, and LoadResultContinue comes only with a nil error.
C3_ErrorPairsWithStop ==
    Returned => /\ (err # NoError => result = LoadResultStop)
                /\ (result = LoadResultContinue => err = NoError)

\* C3's case: Load returned the error of a failed unmarshal, after argument
\* parsing and file reading succeeded.
C3_Witness ==
    /\ Returned /\ err # NoError /\ result = LoadResultStop
    /\ unmarshalled /\ "unmarshal main config" \in Range(err)

C5_HelpShortCircuits ==
    (Returned /\ FlagTrue("help"))
        => /\ result = LoadResultStop /\ err = NoError
           /\ fileReads = << >> /\ ~unmarshalled
           /\ dest = DestInit

\* C5's case: --help together with --config naming a missing file.
C5_Witness ==
    /\ Returned /\ FlagTrue("help") /\ HasToken("config", "none.yaml")
    /\ result = LoadResultStop /\ err = NoError

\* The path the precedence of C6 names: the --config value if non-empty,
\* else <PREFIX>_CONFIG if set and non-empty, else the Loader's path.
C6_ExpectedPath ==
    IF flags["config"].changed /\ flags["config"].value # ""
    THEN flags["config"].value
    ELSE IF environ["TESTAPP_CONFIG"] \notin {Unset, ""}
    THEN environ["TESTAPP_CONFIG"]
    ELSE loader.configPath

\* C6: the config path Load reads is the --config value if non-empty,
\* otherwise <PREFIX>_CONFIG if set and non-empty, otherwise the Loader's
\* fallback path.
C6_PathPrecedence ==
    (pc \in {"executed", "done"} /\ fileReads # << >>)
        => fileReads = <<C6_ExpectedPath>>

\* What C7 expects of key k of the loaded file: the environment value if
\* <PREFIX>_<KEY> is set and non-empty, else the file's value.
C7_EnvOrFile(k) ==
    IF environ[EnvKey(loader.envPrefix, k)] \notin {Unset, ""}
    THEN StrVal(environ[EnvKey(loader.envPrefix, k)])
    ELSE Files[v.configFile].content[k]

\* Load returned (Continue, nil) after loading a file.
C7_Loaded ==
    /\ Returned /\ result = LoadResultContinue /\ err = NoError
    /\ fileReads # << >> /\ v.configFile \in DOMAIN Files

\* C7 as stated: after (Continue, nil) every key of the loaded file holds the
\* environment value if one is set and non-empty, else the file's value.
C7_EnvOverFileEveryKey ==
    C7_Loaded =>
        \A k \in DOMAIN Files[v.configFile].content \cap DestFields :
            dest[k] = Decoded(k, C7_EnvOrFile(k))

\* C7 amended: after (Continue, nil) every key of the loaded file holds the
\* environment value if one is set and non-empty, else the file's value,
\* except a key bound to a flag given on the command line (config, when
\* --config is given), which holds the flag's value.
C7_EnvOverFile ==
    C7_Loaded =>
        \A k \in DOMAIN Files[v.configFile].content \cap DestFields :
            IF k = "config" /\ flags["config"].changed
            THEN dest[k] = flags["config"].value
            ELSE dest[k] = Decoded(k, C7_EnvOrFile(k))

\* C7's case: the port overridden by the environment, log_level left at the
\* file's value.
C7_Witness ==
    /\ C7_Loaded /\ environ["TESTAPP_PORT"] = "7070"
    /\ environ["TESTAPP_LOG_LEVEL"] = Unset
    /\ v.configFile = "a.yaml"
    /\ dest["port"] = 7070 /\ dest["log_level"] = "info"

\* C8: a destination that is not a pointer, a nil printer or a nil sink makes
\* Load return (Stop, error) before anything else: no argument parsing, no
\* environment or file read, no printer call, destination unchanged.
C8_InvalidArgsRejectedFirst ==
    (pc # "start" /\ (cfg = "struct" \/ printVersion = "nil" \/ writer = "nil"))
        => /\ Returned /\ result = LoadResultStop /\ err # NoError
           /\ ~argsParsed /\ ~envRead /\ fileReads = << >>
           /\ printed = << >> /\ sink = << >> /\ stdout = << >>
           /\ ~unmarshalled /\ dest = DestInit
           /\ v = NewViper

\* C8's case: a valid destination and printer with a nil sink.
C8_Witness ==
    /\ Returned /\ cfg = "ptrStruct" /\ printVersion = "ok" /\ writer = "nil"
    /\ result = LoadResultStop /\ err = <<"writer must be a non-nil writer">>

\* C9: every destination that is not a non-nil pointer to a struct (a typed
\* nil pointer and a pointer to a non-struct included) is rejected by the
\* eager check with an invalid-argument error, and reaches neither flag
\* parsing nor file reading nor unmarshalling.
C9_OnlyStructPointersPass ==
    (pc # "start" /\ cfg # "ptrStruct")
        => /\ Returned /\ result = LoadResultStop /\ err # NoError
           /\ ~argsParsed /\ fileReads = << >> /\ ~unmarshalled

\* Neither version nor help is requested and the arguments parse.
C10_LoadRequested ==
    /\ ArgsParsedOK /\ ~ParseBool(flags["help"].value)
    /\ ~(flags["version"].changed /\ flags["version"].value = "true")
    /\ ~(~flags["version"].changed /\ environ["TESTAPP_VERSION"] = "true")

\* C10: if neither version nor help is requested and the file at the resolved
\* path is missing or does not parse, Load returns (Stop, error): that one
\* path is the only one tried (a missing --config path is not replaced by
\* the Loader's path), nothing is loaded or unmarshalled, the destination is
\* unchanged, and for a missing file the error carries the path.
C10_MissingOrBadFileIsError ==
    (Returned /\ C10_LoadRequested
              /\ (v.configFile \notin DOMAIN Files \/ ~Files[v.configFile].valid))
        => /\ result = LoadResultStop /\ err # NoError
           /\ fileReads = <<v.configFile>>
           /\ v.config = EmptyMap /\ ~unmarshalled
           /\ dest = DestInit
           /\ (v.configFile \notin DOMAIN Files => v.configFile \in Range(err))
           /\ (flags["config"].changed /\ flags["config"].value # ""
                   => v.configFile = flags["config"].value)

\* C10's case: --config names a missing file while the Loader's path exists.
C10_Witness ==
    /\ Returned /\ C10_LoadRequested
    /\ HasToken("config", "none.yaml") /\ loader.configPath = "a.yaml"
    /\ fileReads = <<"none.yaml">>
    /\ result = LoadResultStop /\ "none.yaml" \in Range(err)

\* What one Load call returns and leaves in its destination when nothing of
\* any other call exists: computed from the call's own Loader, arguments,
\* environment and files alone.
IsolatedOutcome(l, args, e, c, pv, w, typedNotFound) ==
    IF ValidateArgs(c, pv, w) # NoError
    THEN [result |-> LoadResultStop, err |-> ValidateArgs(c, pv, w), dest |-> DestInit]
    ELSE LET parse == ParseFlags(NewFlagSet, args) IN
         IF parse.err # NoError
         THEN [result |-> LoadResultStop,
               err |-> Wrap("execute root command", parse.err), dest |-> DestInit]
         ELSE IF ParseBool(parse.flags["help"].value)
         THEN [result |-> LoadResultStop, err |-> NoError, dest |-> DestInit]
         ELSE LET r == PreRunE(l, BuildRootCommand(l, NewViper), parse.flags, e, c, pv, w,
                               DestInit, typedNotFound) IN
              IF r.err # NoError
              THEN [result |-> LoadResultStop,
                    err |-> Wrap("execute root command", r.err), dest |-> r.dest]
              ELSE [result |-> ResultAfterExecute(parse.flags), err |-> NoError,
                    dest |-> r.dest]

\* One step of a sequence of calls: a step of a call leaves the Loader's
\* fields alone; a call that passed validation works on a viper instance and
\* a flag set holding nothing of an earlier call; a call that returns,
\* returns what it would return in isolation.
C11_Step ==
    /\ (pc # "done" => loader' = loader)
    /\ (pc' = "built" => /\ v' = BuildRootCommand(loader', NewViper)
                         /\ flags' = NewFlagSet)
    /\ (pc' = "executed" => /\ flags' = ParseFlags(NewFlagSet, osArgs').flags
                            /\ v'.config \in {EmptyMap} \cup
                                   {Files[q].content : q \in {v'.configFile} \cap DOMAIN Files})
    /\ (pc' = "done" =>
            \E typedNotFound \in BOOLEAN :
                [result |-> result', err |-> err', dest |-> dest'] =
                    IsolatedOutcome(loader', osArgs', environ', cfg', printVersion',
                                    writer', typedNotFound))

\* C11: in any sequence of Load calls, on the same Loader or on different
\* ones, each call's result and destination depend only on that call's own
\* Loader, arguments, environment and files; no flag value, bound key, file
\* content or resolved path of an earlier call is visible to a later one, and
\* Load never changes the Loader's fields.
C11_CallsAreIsolated == [][C11_Step]_vars

\* C11's case: a later call, made without arguments after an earlier call
\* has returned, loads its own Loader's file and returns Continue.
C11_Witness ==
    /\ earlier /\ Returned /\ osArgs = << >> /\ argsParsed
    /\ environ = [n \in EnvNames |-> Unset]
    /\ loader.configPath = "a.yaml"
    /\ result = LoadResultContinue /\ err = NoError
    /\ dest = [port |-> 8080, log_level |-> "info", config |-> "from-file"]

\* C12: within one Load call the version printer is invoked at most once, and
\* only when the version flag was requested in the process arguments; in a
\* call whose arguments do not contain the version flag it is never invoked.
C12_PrinterOnlyOnVersionFlag ==
    /\ Len(printed) <= 1
    /\ (printed # << >> => \E i \in DOMAIN osArgs : osArgs[i].flag = "version")

\* C13: if the version flag is set and the version printer returns an error,
\* Load returns (Stop, err) with err wrapping the printer's error; the config
\* file is not read and the destination is unchanged.
C13_PrinterErrorIsReturned ==
    (Returned /\ printed # << >> /\ printVersion = "fail")
        => /\ result = LoadResultStop
           /\ err = <<"execute root command", "print version", "write failed">>
           /\ fileReads = << >> /\ ~unmarshalled /\ v.config = EmptyMap
           /\ dest = DestInit

\* C13's case: --version given with a printer that fails.
C13_Witness ==
    /\ Returned /\ FlagTrue("version") /\ printVersion = "fail"
    /\ printed = <<"buffer">>
    /\ result = LoadResultStop /\ "write failed" \in Range(err)

\* C14: the writer passed to Load receives both the version and the help
\* output: with --help the help text is written to that writer and to no
\* other sink, such as the process's standard output.
C14_HelpGoesToWriter ==
    /\ stdout = << >>
    /\ ((Returned /\ FlagTrue("help")) => "help" \in Range(sink))

\* C15: within one Load call the version step runs before the help step:
\* whenever the version flag is set, also when --help is given with it, the
\* version printer is invoked with the output sink and Load returns
\* (Stop, nil).
C15_VersionBeforeHelp ==
    (Returned /\ FlagTrue("version") /\ printVersion = "ok")
        => /\ printed = <<writer>>
           /\ sink = <<"version">>
           /\ result = LoadResultStop /\ err = NoError

====
